---------------------------- MODULE Spec2Model ----------------------------
(***************************************************************************)
(* Aura license keys: the key codec of license_generator.py               *)
(* (compute_signature, generate_key, validate_key), the four modes of its *)
(* main (validation, batch, single key, interactive) and the machine id   *)
(* derivation of verify_keys.py.                                           *)
(*                                                                         *)
(* Python strings are TLA+ strings over ASCII; a character is a string of *)
(* length 1.  MD5 is computed as hashlib computes it, on 32-bit words     *)
(* kept as <<high 16 bits, low 16 bits>>.                                  *)
(***************************************************************************)
EXTENDS Integers, Sequences, FiniteSets, TLC

(***************************************************************************)
(* The state: one run of one of the two programs, or the calls a program   *)
(* that imports license_generator makes.  In the interactive mode the      *)
(* records of the calls are those of the last command that was read.       *)
(***************************************************************************)
VARIABLES
  pc,         \* how far the run is
  gcustomer,  \* the customer_id argument of the last generate_key call
  gmachine,   \* the machine_id argument of the last generate_key call
  gen,        \* what that call returned or raised
  vkey,       \* the key argument of the last validate_key call
  edit,       \* what was done to the issued key before it was validated
  vmachine,   \* the machine_id argument of the last validate_key call
  val,        \* what that call returned or raised
  keys,       \* the generate_key calls of a batch, in order
  line,       \* the last line the interactive mode read
  caught,     \* the text of the exception the interactive mode caught
  exit,       \* the exit status of the process
  host,       \* platform.node() in verify_keys.py
  vol,        \* the outcome of the vol command in verify_keys.py
  derived     \* the machine id verify_keys.py derived, or its error

vars ==
  <<pc, gcustomer, gmachine, gen, vkey, edit, vmachine, val, keys, line,
    caught, exit, host, vol, derived>>

(***************************************************************************)
(* Characters and the str methods the code uses.                           *)
(***************************************************************************)
CharAt(s, i) == SubSeq(s, i, i)

\* The ASCII characters 9..13 and 28..31: with the space, the ASCII
\* characters str.isspace() holds to be whitespace.
ControlLo == "\t\n\f\r"

ControlHi == ""

\* The ASCII characters 32..95 and 97..126 (all printable ones but the
\* backquote, which the model's strings never hold).
PrintableLo ==
  " !\"#$%&'()*+,-./0123456789:;<=>?@ABCDEFGHIJKLMNOPQRSTUVWXYZ[\\]^_"

PrintableHi == "abcdefghijklmnopqrstuvwxyz{|}~"

\* A function as a table of its values (f @@ <<>> is f, tabulated once).
Table(f) == f @@ <<>>

\* The element of a set of one element.  Only({e(x) : x \in {v}}) is e(v)
\* with v computed once, as an assignment x = v before e computes it.
Only(S) == CHOOSE x \in S : TRUE

Chars(s) == {CharAt(s, i) : i \in 1..Len(s)}

IndexOf(s, c) == CHOOSE i \in 1..Len(s) : CharAt(s, i) = c

AsciiOrd ==
  Table([c \in Chars(ControlLo) \cup Chars(ControlHi)
                \cup Chars(PrintableLo) \cup Chars(PrintableHi) |->
     IF c \in Chars(ControlLo) THEN 8 + IndexOf(ControlLo, c)
     ELSE IF c \in Chars(ControlHi) THEN 27 + IndexOf(ControlHi, c)
     ELSE IF c \in Chars(PrintableLo) THEN 31 + IndexOf(PrintableLo, c)
     ELSE 96 + IndexOf(PrintableHi, c)])

\* ord(c) of an ASCII character: the byte str.encode('utf-8') gives it.
Ord(c) == AsciiOrd[c]

\* chr(n) for 32 <= n <= 95 and 97 <= n <= 126.
Chr(n) == IF n <= 95 THEN CharAt(PrintableLo, n - 31) ELSE CharAt(PrintableHi, n - 96)

\* str.upper() on one character: a..z go to A..Z, all else is kept.
UpperChar(c) ==
  IF Ord(c) >= 97 /\ Ord(c) <= 122 THEN Chr(Ord(c) - 32) ELSE c

RECURSIVE Upper(_)
Upper(s) ==
  IF s = "" THEN "" ELSE UpperChar(Head(s)) \o Upper(Tail(s))

\* str.lower() on one character: A..Z go to a..z, all else is kept.
LowerChar(c) ==
  IF Ord(c) >= 65 /\ Ord(c) <= 90 THEN Chr(Ord(c) + 32) ELSE c

RECURSIVE Lower(_)
Lower(s) ==
  IF s = "" THEN "" ELSE LowerChar(Head(s)) \o Lower(Tail(s))

Whitespace == {" "} \cup Chars(ControlLo) \cup Chars(ControlHi)

\* str.isspace() on one ASCII character: the space, \t, \n, \x0b, \x0c,
\* \r and \x1c..\x1f.
IsSpace(c) == c \in Whitespace

RECURSIVE LStrip(_)
LStrip(s) ==
  IF s # "" /\ IsSpace(Head(s)) THEN LStrip(Tail(s)) ELSE s

RECURSIVE RStrip(_)
RStrip(s) ==
  IF s # "" /\ IsSpace(CharAt(s, Len(s)))
  THEN RStrip(SubSeq(s, 1, Len(s) - 1))
  ELSE s

\* str.strip(): leading and trailing whitespace removed.
Strip(s) == RStrip(LStrip(s))

Min(a, b) == IF a <= b THEN a ELSE b

\* s[:n]: the first n characters, or all of s when it is shorter.
Prefix(s, n) == SubSeq(s, 1, Min(n, Len(s)))

\* s[a:b] with 0 <= a <= b, 0-based, end exclusive, clamped to len(s).
Slice(s, a, b) == SubSeq(s, Min(a, Len(s)) + 1, Min(b, Len(s)))

RECURSIVE Spaces(_)
Spaces(n) == IF n <= 0 THEN "" ELSE " " \o Spaces(n - 1)

\* str.ljust(n): right-padded with spaces to n characters, never cut.
Ljust(s, n) == s \o Spaces(n - Len(s))

\* str.startswith(p)
StartsWith(s, p) == Len(s) >= Len(p) /\ SubSeq(s, 1, Len(p)) = p

\* The positions at which a maximal run of characters of s that are not
\* whitespace begins, and the position at which the run begun at i ends.
WordStarts(s) ==
  {i \in 1..Len(s) :
     ~IsSpace(CharAt(s, i)) /\ (i = 1 \/ IsSpace(CharAt(s, i - 1)))}

WordEnd(s, i) ==
  CHOOSE j \in i..Len(s) :
    /\ j = Len(s) \/ IsSpace(CharAt(s, j + 1))
    /\ \A k \in i..j : ~IsSpace(CharAt(s, k))

\* str.split(): the maximal runs of characters that are not whitespace,
\* in their order.
Split(s) ==
  [n \in 1..Cardinality(WordStarts(s)) |->
     SubSeq(s,
            CHOOSE i \in WordStarts(s) :
              Cardinality({j \in WordStarts(s) : j < i}) = n - 1,
            WordEnd(s, CHOOSE i \in WordStarts(s) :
                         Cardinality({j \in WordStarts(s) : j < i}) = n - 1))]
    @@ <<>>

(***************************************************************************)
(* hashlib.md5: RFC 1321 on 32-bit words <<hi, lo>> of two 16-bit halves.  *)
(***************************************************************************)
RECURSIVE BitAnd(_, _)
BitAnd(x, y) ==
  IF x = 0 \/ y = 0 THEN 0
  ELSE ((x % 2) * (y % 2)) + (2 * BitAnd(x \div 2, y \div 2))

AndByte == Table([x \in 0..255 |-> Table([y \in 0..255 |-> BitAnd(x, y)])])

And16(x, y) ==
  (256 * AndByte[x \div 256][y \div 256]) + AndByte[x % 256][y % 256]

WAnd(a, b) == <<And16(a[1], b[1]), And16(a[2], b[2])>>
WOr(a, b) ==
  <<a[1] + b[1] - And16(a[1], b[1]), a[2] + b[2] - And16(a[2], b[2])>>
WXor(a, b) ==
  <<a[1] + b[1] - (2 * And16(a[1], b[1])), a[2] + b[2] - (2 * And16(a[2], b[2]))>>
WNot(a) == <<65535 - a[1], 65535 - a[2]>>

\* Addition modulo 2^32.
WAdd(a, b) ==
  <<(a[1] + b[1] + ((a[2] + b[2]) \div 65536)) % 65536, (a[2] + b[2]) % 65536>>

Pow2 == Table([n \in 0..16 |-> 2 ^ n])

\* Rotation to the left by n bits, 0 <= n < 16, of a 32-bit word.
WRotl16(a, n) ==
  <<((a[1] * Pow2[n]) % 65536) + (a[2] \div Pow2[16 - n]),
    ((a[2] * Pow2[n]) % 65536) + (a[1] \div Pow2[16 - n])>>

\* Rotation to the left by n bits, 0 < n < 32.
WRotl(a, n) ==
  IF n >= 16 THEN WRotl16(<<a[2], a[1]>>, n - 16) ELSE WRotl16(a, n)

\* floor(2^32 * abs(sin(i + 1))), i = 0..63
MD5_K ==
  <<
    <<55146, 42104>>, <<59591, 46934>>, <<9248, 28891>>, <<49597, 52974>>,
    <<62844, 4015>>, <<18311, 50730>>, <<43056, 17939>>, <<64838, 38145>>,
    <<27008, 39128>>, <<35652, 63407>>, <<65535, 23473>>, <<35164, 55230>>,
    <<27536, 4386>>, <<64920, 29075>>, <<42617, 17294>>, <<18868, 2081>>,
    <<63006, 9570>>, <<49216, 45888>>, <<9822, 23121>>, <<59830, 51114>>,
    <<54831, 4189>>, <<580, 5203>>, <<55457, 59009>>, <<59347, 64456>>,
    <<8673, 52710>>, <<49975, 2006>>, <<62677, 3463>>, <<17754, 5357>>,
    <<43491, 59653>>, <<64751, 41976>>, <<26479, 729>>, <<36138, 19594>>,
    <<65530, 14658>>, <<34673, 63105>>, <<28061, 24866>>, <<64997, 14348>>,
    <<42174, 59972>>, <<19422, 53161>>, <<63163, 19296>>, <<48831, 48240>>,
    <<10395, 32454>>, <<60065, 10234>>, <<54511, 12421>>, <<1160, 7429>>,
    <<55764, 53305>>, <<59099, 39397>>, <<8098, 31992>>, <<50348, 22117>>,
    <<62505, 8772>>, <<17194, 65431>>, <<43924, 9127>>, <<64659, 41017>>,
    <<25947, 22979>>, <<36620, 52370>>, <<65519, 62589>>, <<34180, 24017>>,
    <<28584, 32335>>, <<65068, 59104>>, <<41729, 17172>>, <<19976, 4513>>,
    <<63315, 32386>>, <<48442, 62005>>, <<10967, 53947>>, <<60294, 54161>>
  >>

MD5_S ==
  <<
    7, 12, 17, 22, 7, 12, 17, 22, 7, 12, 17, 22, 7, 12, 17, 22,
    5, 9, 14, 20, 5, 9, 14, 20, 5, 9, 14, 20, 5, 9, 14, 20,
    4, 11, 16, 23, 4, 11, 16, 23, 4, 11, 16, 23, 4, 11, 16, 23,
    6, 10, 15, 21, 6, 10, 15, 21, 6, 10, 15, 21, 6, 10, 15, 21
  >>

MD5_Init ==
  <<<<26437, 8961>>, <<61389, 43913>>, <<39098, 56574>>, <<4146, 21622>>>>

\* The bytes of the ASCII string s.
Bytes(s) == [i \in 1..Len(s) |-> Ord(CharAt(s, i))]

\* The message padded to a multiple of 64 bytes: 0x80, zeros, and the
\* length in bits as 8 little-endian bytes.
MD5_Pad(b) ==
  LET n == Len(b)
      bits == 8 * n
  IN  b \o <<128>> \o [i \in 1..((55 - n) % 64) |-> 0]
        \o <<bits % 256, (bits \div 256) % 256, (bits \div 65536) % 256,
             bits \div 16777216, 0, 0, 0, 0>>

\* The 16 little-endian words of the 64-byte block that starts after
\* offset off.
MD5_Words(p, off) ==
  [j \in 1..16 |->
     <<(p[off + (4 * j)] * 256) + p[off + (4 * j) - 1],
       (p[off + (4 * j) - 2] * 256) + p[off + (4 * j) - 3]>>]

MD5_F(i, B, C, D) ==
  IF i < 16 THEN WOr(WAnd(B, C), WAnd(WNot(B), D))
  ELSE IF i < 32 THEN WOr(WAnd(D, B), WAnd(WNot(D), C))
  ELSE IF i < 48 THEN WXor(WXor(B, C), D)
  ELSE WXor(C, WOr(B, WNot(D)))

MD5_G(i) ==
  IF i < 16 THEN i
  ELSE IF i < 32 THEN ((5 * i) + 1) % 16
  ELSE IF i < 48 THEN ((3 * i) + 5) % 16
  ELSE (7 * i) % 16

\* Operations i..last-1 of one block on the working state st = <<A, B, C, D>>.
\* (Len(st) is asked first so that st is evaluated before the next step.)
RECURSIVE MD5_Rounds(_, _, _, _)
MD5_Rounds(st, M, i, last) ==
  IF Len(st) # 4 \/ i = last THEN st
  ELSE LET F == WAdd(WAdd(MD5_F(i, st[2], st[3], st[4]), st[1]),
                     WAdd(MD5_K[i + 1], M[MD5_G(i) + 1]))
       IN  MD5_Rounds(<<st[4], WAdd(st[2], WRotl(F, MD5_S[i + 1])), st[2], st[3]>>,
                      M, i + 1, last)

\* The 64 operations of one block, in the four rounds of 16.
MD5_Block(h, M) ==
  LET r1 == MD5_Rounds(h, M, 0, 16)
      r2 == MD5_Rounds(r1, M, 16, 32)
      r3 == MD5_Rounds(r2, M, 32, 48)
      r4 == MD5_Rounds(r3, M, 48, 64)
  IN  <<WAdd(h[1], r4[1]), WAdd(h[2], r4[2]), WAdd(h[3], r4[3]), WAdd(h[4], r4[4])>>

\* The chaining state after the blocks of p from offset off on.
RECURSIVE MD5_Blocks(_, _, _)
MD5_Blocks(h, p, off) ==
  IF off >= Len(p) THEN h
  ELSE MD5_Blocks(MD5_Block(h, MD5_Words(p, off)), p, off + 64)

HexDigits == "0123456789abcdef"

HexByte(b) ==
  CharAt(HexDigits, (b \div 16) + 1) \o CharAt(HexDigits, (b % 16) + 1)

\* The 8 hex characters of a word in digest order (little-endian bytes).
HexWord(w) ==
  HexByte(w[2] % 256) \o HexByte(w[2] \div 256)
    \o HexByte(w[1] % 256) \o HexByte(w[1] \div 256)

\* hashlib.md5(s.encode('utf-8')).hexdigest()[:8]
MD5Hex8(s) == HexWord(MD5_Blocks(MD5_Init, MD5_Pad(Bytes(s)), 0)[1])

RECURSIVE Digits(_)
Digits(n) ==
  IF n < 10 THEN CharAt(HexDigits, n + 1)
  ELSE Digits(n \div 10) \o CharAt(HexDigits, (n % 10) + 1)

\* str(n) of an integer n >= 0, as an f-string prints it.
Str(n) == Digits(n)

\* s with zeros before it up to n characters.
RECURSIVE ZeroFill(_, _)
ZeroFill(s, n) == IF Len(s) >= n THEN s ELSE ZeroFill("0" \o s, n)

\* f"{i:04d}": at least 4 characters, the sign counted, zeros after it.
Format04d(i) ==
  IF i < 0 THEN "-" \o ZeroFill(Digits(0 - i), 3) ELSE ZeroFill(Digits(i), 4)

IsDigit(c) == Ord(c) >= 48 /\ Ord(c) <= 57

\* The digits of an int literal without its sign: digits, with single
\* underscores between them.
IsIntBody(s) ==
  /\ s # ""
  /\ IsDigit(CharAt(s, 1))
  /\ IsDigit(CharAt(s, Len(s)))
  /\ \A i \in 1..Len(s) : IsDigit(CharAt(s, i)) \/ CharAt(s, i) = "_"
  /\ \A i \in 1..(Len(s) - 1) : ~(CharAt(s, i) = "_" /\ CharAt(s, i + 1) = "_")

\* The value of the first n characters of an int body.
RECURSIVE IntBodyValue(_, _)
IntBodyValue(s, n) ==
  IF n = 0 THEN 0
  ELSE IF CharAt(s, n) = "_" THEN IntBodyValue(s, n - 1)
  ELSE (IntBodyValue(s, n - 1) * 10) + (Ord(CharAt(s, n)) - 48)

HasSign(s) == s # "" /\ CharAt(s, 1) \in {"+", "-"}

Unsigned(s) == IF HasSign(s) THEN SubSeq(s, 2, Len(s)) ELSE s

\* repr(s) of a string of printable ASCII characters.
RECURSIVE Escaped(_, _)
Escaped(s, quote) ==
  IF s = "" THEN ""
  ELSE (IF Head(s) = "\\" \/ Head(s) = quote THEN "\\" ELSE "") \o Head(s)
         \o Escaped(Tail(s), quote)

Repr(s) ==
  IF "'" \in Chars(s) /\ "\"" \notin Chars(s)
  THEN "\"" \o Escaped(s, "\"") \o "\""
  ELSE "'" \o Escaped(s, "'") \o "'"

\* int(s) of a string without whitespace: the value, or the ValueError.
ParseInt(s) ==
  IF IsIntBody(Unsigned(s))
  THEN [raised |-> "none",
        value |-> IF HasSign(s) /\ CharAt(s, 1) = "-"
                  THEN 0 - IntBodyValue(Unsigned(s), Len(Unsigned(s)))
                  ELSE IntBodyValue(Unsigned(s), Len(Unsigned(s))),
        message |-> ""]
  ELSE [raised |-> "ValueError", value |-> 0,
        message |-> "invalid literal for int() with base 10: " \o Repr(s)]

\* s with the character at position i (1-based) replaced by c.
ReplaceAt(s, i, c) == SubSeq(s, 1, i - 1) \o c \o SubSeq(s, i + 1, Len(s))

(***************************************************************************)
(* The inputs of the model.                                                *)
(***************************************************************************)
MaxCidLen == 5
MaxPad == 1
MaxBatch == 2

CustomerBases == {"1- a234", "0001234"}

\* Customer ids as typed: empty, shorter than 4, exactly 4, longer than 4,
\* with '-', space and a lowercase letter.
CustomerIds ==
  {Prefix(b, n) : b \in CustomerBases, n \in 0..MaxCidLen}

MachineCores ==
  {"AB12CD34", "ab12cd34", "AB12XXXX", "CD34AB12", "Ab12", "AB1", " ", ""}

PaddedCores == {"AB12CD34", "AB1"}

\* Machine ids as typed: the cores, and some with whitespace around them.
MachineIds ==
  MachineCores
    \cup {Spaces(n) \o m : n \in 1..MaxPad, m \in PaddedCores}
    \cup {m \o Spaces(n) : n \in 1..MaxPad, m \in PaddedCores}
    \cup {"AB12CD34\f"}

\* The characters a key is tampered with.
TamperChars == {" ", "X", "0"}

\* Key texts a user types without having been issued them.
TypedKeys ==
  {"", "AURA", "AURA-", "aura-0001-ab12", "AURA-0001-AB12-F78A950E",
   "aura-0001-ab12-f78a950e", "AURA-0001-AB12-F78A950E0",
   "AURA-0001xAB12-F78A950E", "AURA-0001-AB12-F78A950F",
   "XURA-0001-AB12-F78A950E", "AURA-0001-CD34-F78A950E"}

\* --batch and --start as argparse leaves them (0 also stands for a
\* --batch that is not given: both are false where main tests it).
BatchCounts == {0 - 1, 0, 1, MaxBatch}

BatchStarts == {1, 9999, 0 - 1}

\* The words of the commands typed in the interactive mode.
PromptMachines == {"AB12CD34", "ab12cd34", "CD34AB12", "AB1"}

PromptCustomers == {"0001", "7"}

PromptCounts == {"0", "-1", "x", "0_" \o Str(MaxBatch), Str(MaxBatch)}

(***************************************************************************)
(* license_generator.py                                                    *)
(***************************************************************************)
SECRET == "AuRa_Eq_2026_LiCeNsE_kEy_SeCrEt_V2"

KeyLength == 23

\* Faulty variant: the customer id is padded but not cut to 4 characters.
NormalizeCustomer_NoCut(customer_id) == Ljust(Upper(customer_id), 4)

\* Faulty variant: the customer id is padded on the left.
NormalizeCustomer_Rjust(customer_id) ==
  Prefix(Spaces(4 - Len(customer_id)) \o Upper(customer_id), 4)

\* customer_id.upper().ljust(4)[:4]
NormalizeCustomer(customer_id) == Prefix(Ljust(Upper(customer_id), 4), 4)

\* key.upper().strip()
NormalizeKey(key) == Strip(Upper(key))

\* Faulty variant: the machine id is trimmed but not uppercased.
NormalizeMachine_NoUpper(machine_id) == Strip(machine_id)

\* machine_id.upper().strip()
NormalizeMachine(machine_id) == Strip(Upper(machine_id))

\* The first 8 hex characters, uppercase, of the MD5 of
\* SECRET-customer_id-machine_id.
Signature(customer_id, machine_id) ==
  Upper(MD5Hex8(SECRET \o "-" \o customer_id \o "-" \o machine_id))

\* The arguments compute_signature is called with on the model's inputs:
\* by generate_key, and by validate_key on issued and edited keys.
IssuedCustomers == {NormalizeCustomer(c) : c \in CustomerIds}

EditedCustomers ==
  {ReplaceAt(c, i, Upper(ch)) :
     c \in IssuedCustomers, i \in 1..4, ch \in TamperChars}

IssuedMachines == {Upper(m) : m \in MachineIds}

ValidatedMachines == {NormalizeMachine(m) : m \in MachineIds}

\* The customer ids of the batches and of the interactive commands.
BatchCustomers ==
  {Format04d(s + k) : s \in BatchStarts, k \in 0..(MaxBatch - 1)}

MainCustomers ==
  {NormalizeCustomer(c) : c \in BatchCustomers \cup PromptCustomers}

SignedArguments ==
  ((IssuedCustomers \cup MainCustomers) \X IssuedMachines)
    \cup ((IssuedCustomers \cup EditedCustomers \cup MainCustomers)
            \X ValidatedMachines)

\* Their signatures, computed once.
SignatureMemo == Table([a \in SignedArguments |-> Signature(a[1], a[2])])

compute_signature(customer_id, machine_id) ==
  IF <<customer_id, machine_id>> \in SignedArguments
  THEN SignatureMemo[<<customer_id, machine_id>>]
  ELSE Signature(customer_id, machine_id)

\* Faulty variant: the separator between customer id and machine prefix is misplaced.
FormatKey_NoDash(cid, machine_prefix, signature) ==
  "AURA-" \o cid \o machine_prefix \o "--" \o signature

\* f"AURA-{cid}-{machine_prefix}-{signature}"
FormatKey(cid, machine_prefix, signature) ==
  "AURA-" \o cid \o "-" \o machine_prefix \o "-" \o signature

\* The result of a call: what it raised ("none" when it returned), and the
\* returned key or the text of the error.
NotCalled == [raised |-> "not called", value |-> ""]

generate_key(customer_id, machine_id) ==
  LET cid == NormalizeCustomer(customer_id)
      mid == Upper(machine_id)
      machine_prefix == Prefix(mid, 4)
  IN  IF Len(mid) < 4
      THEN [raised |-> "ValueError",
            value |-> "Machine-ID muss mindestens 4 Zeichen haben (erhalten: '"
                        \o mid \o "')"]
      ELSE Only({IF Len(key) # KeyLength
                 THEN [raised |-> "AssertionError",
                       value |-> "Key-Laenge falsch: " \o Str(Len(key))
                                   \o " statt 23"]
                 ELSE [raised |-> "none", value |-> key] :
                   key \in {FormatKey(cid, machine_prefix,
                                      compute_signature(cid, mid))}})

\* key.startswith("AURA-")
HasPrefix(key) == StartsWith(key, "AURA-")

\* Faulty variant: the length check is left out.
HasLength_Skipped(key) == TRUE

\* len(key) == 23
HasLength(key) == Len(key) = KeyLength

\* Faulty variant: the third separator is not checked.
Separators_TwoOnly(key) ==
  IF Len(key) <= 4 THEN "IndexError"
  ELSE IF CharAt(key, 5) # "-" THEN "bad"
  ELSE IF Len(key) <= 9 THEN "IndexError"
  ELSE IF CharAt(key, 10) # "-" THEN "bad"
  ELSE "ok"

\* key[4] != '-' or key[9] != '-' or key[14] != '-', read left to right:
\* "ok" when all three are '-', "bad" when one is not, "IndexError" when a
\* position that is read lies beyond the end of the key.
Separators(key) ==
  IF Len(key) <= 4 THEN "IndexError"
  ELSE IF CharAt(key, 5) # "-" THEN "bad"
  ELSE IF Len(key) <= 9 THEN "IndexError"
  ELSE IF CharAt(key, 10) # "-" THEN "bad"
  ELSE IF Len(key) <= 14 THEN "IndexError"
  ELSE IF CharAt(key, 15) # "-" THEN "bad"
  ELSE "ok"

\* Faulty variant: the machine check is left out.
MachineMatches_Skipped(machine_prefix, machine_id) == TRUE

\* machine_prefix != machine_id[:4], negated
MachineMatches(machine_prefix, machine_id) ==
  machine_prefix = Prefix(machine_id, 4)

\* Faulty variant: only the first 7 characters of the signature are compared.
SignatureMatches_Seven(signature, expected) ==
  Prefix(signature, 7) = Prefix(expected, 7)

\* signature != expected, negated
SignatureMatches(signature, expected) == signature = expected

NotValidated == [raised |-> "not called", valid |-> FALSE, message |-> ""]

Returned(valid, message) ==
  [raised |-> "none", valid |-> valid, message |-> message]

\* Lines 97-102 on the stripped, uppercased key and machine id.
CheckSignature(key, machine_id) ==
  Only({IF ~SignatureMatches(Slice(key, 15, 23), expected)
        THEN Returned(FALSE, "Signatur ungueltig (erwartet " \o expected
                               \o ", erhalten " \o Slice(key, 15, 23) \o ")")
        ELSE Returned(TRUE, "Key gueltig fuer Machine " \o machine_id
                              \o " (Kunde: " \o Slice(key, 5, 9) \o ")") :
          expected \in {compute_signature(Slice(key, 5, 9), machine_id)}})

\* Lines 78-102 on the stripped, uppercased key and machine id.
Checks(key, machine_id) ==
  IF ~HasPrefix(key)
  THEN Returned(FALSE, "Key muss mit 'AURA-' beginnen")
  ELSE IF ~HasLength(key)
  THEN Returned(FALSE, "Ungueltige Key-Laenge (erwartet 23, erhalten "
                         \o Str(Len(key)) \o ")")
  ELSE IF Separators(key) = "IndexError"
  THEN [raised |-> "IndexError", valid |-> FALSE,
        message |-> "string index out of range"]
  ELSE IF Separators(key) = "bad"
  THEN Returned(FALSE, "Ungueltige Trennzeichen-Positionen")
  ELSE IF ~MachineMatches(Slice(key, 10, 14), machine_id)
  THEN Returned(FALSE, "Machine-ID stimmt nicht (" \o Slice(key, 10, 14)
                         \o " != " \o Prefix(machine_id, 4) \o ")")
  ELSE CheckSignature(key, machine_id)

validate_key(key_arg, machine_arg) ==
  Only({Checks(key, machine_id) :
          key \in {NormalizeKey(key_arg)},
          machine_id \in {NormalizeMachine(machine_arg)}})


(***************************************************************************)
(* verify_keys.py: the machine id of this host.                            *)
(***************************************************************************)
IsHexChar(c) ==
  \E i \in 1..Len("0123456789ABCDEFabcdef") :
    CharAt("0123456789ABCDEFabcdef", i) = c

\* int(c, 16) of one hex character.
HexVal(c) ==
  IF Ord(c) <= 57 THEN Ord(c) - 48
  ELSE IF Ord(c) <= 70 THEN Ord(c) - 55
  ELSE Ord(c) - 87

\* [0-9A-Fa-f]{4}-[0-9A-Fa-f]{4} matches the 9 characters of s from i on.
MatchesAt(s, i) ==
  /\ i + 8 <= Len(s)
  /\ \A j \in 0..3 : IsHexChar(CharAt(s, i + j))
  /\ CharAt(s, i + 4) = "-"
  /\ \A j \in 5..8 : IsHexChar(CharAt(s, i + j))

\* re.search: the two groups of the leftmost match, or <<>> for None.
ReSearch(s) ==
  IF \E i \in 1..Len(s) : MatchesAt(s, i)
  THEN LET i == CHOOSE i \in 1..Len(s) :
                  MatchesAt(s, i) /\ \A j \in 1..(i - 1) : ~MatchesAt(s, j)
       IN  <<SubSeq(s, i, i + 3), SubSeq(s, i + 5, i + 8)>>
  ELSE <<>>

\* int(g, 16) of four hex characters.
Hex4(g) ==
  (4096 * HexVal(CharAt(g, 1))) + (256 * HexVal(CharAt(g, 2)))
    + (16 * HexVal(CharAt(g, 3))) + HexVal(CharAt(g, 4))

\* n as 4 decimal digits with leading zeros, 0 <= n < 10000.
ZeroPad4(n) ==
  Digits(n \div 1000) \o Digits((n \div 100) % 10)
    \o Digits((n \div 10) % 10) \o Digits(n % 10)

\* str(int(g1 + g2, 16)): the decimal text of hi * 65536 + lo, computed in
\* two parts of at most 10^4 so that no part exceeds 32 bits.
SerialText(match) ==
  IF match = <<>> THEN "0"
  ELSE LET hi == Hex4(match[1])
           lo == Hex4(match[2])
           low == (hi * 5536) + lo
           upper == (hi * 6) + (low \div 10000)
       IN  IF upper = 0 THEN Str(low % 10000)
           ELSE Str(upper) \o ZeroPad4(low % 10000)

\* f"{computer_name}|{serial_num}|AuRa_HW_v2"
Fingerprint(computer_name, stdout) ==
  computer_name \o "|" \o SerialText(ReSearch(stdout)) \o "|AuRa_HW_v2"

\* hashlib.md5(fingerprint.encode("utf-8")).hexdigest()[:8].upper()
MachineIdOf(fingerprint) == Upper(MD5Hex8(fingerprint))

\* What subprocess.run(["cmd", "/c", "vol", "C:"]) can end in: the command
\* cannot be started (no cmd on this host), or it runs and exits with a
\* return code and an output.
VolOutcomes ==
  {[error |-> "FileNotFoundError", returncode |-> 0, stdout |-> ""],
   [error |-> "none", returncode |-> 1, stdout |-> ""],
   [error |-> "none", returncode |-> 1,
    stdout |-> "The system cannot find the drive specified.\n"],
   [error |-> "none", returncode |-> 0,
    stdout |-> " Volume in drive C is OS\n Volume Serial Number is 1A2B-3C4D\n"],
   [error |-> "none", returncode |-> 0,
    stdout |-> " Volume in drive C is DEAD-BEEF\n Volume Serial Number is FFFF-ffff\n"],
   [error |-> "none", returncode |-> 0,
    stdout |-> " Volume in drive C has no label.\n Volume Serial Number is 0000-0000\n"],
   [error |-> "none", returncode |-> 0,
    stdout |-> " Datentraeger in Laufwerk C: ist System\n Volumeseriennummer: 00A1-0B2C\n"],
   [error |-> "none", returncode |-> 0, stdout |-> "12345-67890"]}

\* What platform.node() can return.
ComputerNames == {"DESKTOP-7F3A21", "studio-pc", ""}

NotDerived == [raised |-> "not run", value |-> ""]

\* Lines 29-35 of the script: the machine id, or the error the run ends in.
derive_machine_id(computer_name, outcome) ==
  IF outcome.error # "none"
  THEN [raised |-> outcome.error, value |-> ""]
  ELSE [raised |-> "none",
        value |-> MachineIdOf(Fingerprint(computer_name, outcome.stdout))]


(***************************************************************************)
(* main of license_generator.py.  An option that is not given (None) is    *)
(* "" or 0 here: main only tests it for truth before it uses it.           *)
(***************************************************************************)
\* for i in range(first, stop): generate_key(f"{i:04d}", machine), up to
\* and with the first call that raises.
RECURSIVE BatchRun(_, _, _)
BatchRun(first, stop, machine) ==
  IF first >= stop THEN <<>>
  ELSE Only({<<[customer |-> Format04d(first), out |-> made]>>
               \o (IF made.raised # "none" THEN <<>>
                   ELSE BatchRun(first + 1, stop, machine)) :
               made \in {generate_key(Format04d(first), machine)}})

\* The last call of a batch.
LastCall(calls) ==
  IF calls = <<>> THEN [customer |-> "", out |-> NotCalled]
  ELSE calls[Len(calls)]

\* What a command of the interactive mode did: whether it ended the loop,
\* the calls it made and the text of the exception the loop caught.
Quiet ==
  [command |-> "", stop |-> FALSE,
   gcustomer |-> "", gmachine |-> "", gen |-> NotCalled,
   vkey |-> "", edit |-> "none", vmachine |-> "", val |-> NotValidated,
   keys |-> <<>>, caught |-> ""]

\* Lines 197-198: the key the g command generated is validated.
ValidatedG(cid, mid, made) ==
  Only({[Quiet EXCEPT !.command = "g", !.gcustomer = cid, !.gmachine = mid,
                      !.gen = made, !.vkey = made.value, !.vmachine = mid,
                      !.val = checked,
                      !.caught = IF checked.raised # "none"
                                 THEN checked.message ELSE ""] :
          checked \in {validate_key(made.value, mid)}})

\* Lines 192-198: g <machine_id> [kundennr].
CommandG(mid, cid) ==
  Only({IF made.raised # "none"
        THEN [Quiet EXCEPT !.command = "g", !.gcustomer = cid,
                           !.gmachine = mid, !.gen = made,
                           !.caught = made.value]
        ELSE ValidatedG(cid, mid, made) :
          made \in {generate_key(cid, mid)}})

\* Lines 200-202: v <key> <machine_id>.
CommandV(key, mid) ==
  Only({[Quiet EXCEPT !.command = "v", !.vkey = key, !.edit = "typed",
                      !.vmachine = mid, !.val = checked,
                      !.caught = IF checked.raised # "none"
                                 THEN checked.message ELSE ""] :
          checked \in {validate_key(key, mid)}})

\* Lines 207-209: the loop of the b command.
BatchB(mid, count) ==
  Only({[Quiet EXCEPT !.command = "b",
                      !.gcustomer = LastCall(calls).customer,
                      !.gmachine = IF calls = <<>> THEN "" ELSE mid,
                      !.gen = LastCall(calls).out,
                      !.keys = calls,
                      !.caught =
                        IF LastCall(calls).out.raised \in {"none", "not called"}
                        THEN "" ELSE LastCall(calls).out.value] :
          calls \in {BatchRun(1, count + 1, mid)}})

\* Lines 204-209: b <machine_id> <anzahl>.
CommandB(mid, anzahl) ==
  Only({IF count.raised # "none"
        THEN [Quiet EXCEPT !.command = "b", !.caught = count.message]
        ELSE BatchB(mid, count.value) :
          count \in {ParseInt(anzahl)}})

\* Lines 182-215 on the line that was read and stripped and on its words.
Dispatch(user_input, parts) ==
  IF user_input = "" THEN Quiet
  ELSE IF Lower(user_input) = "quit"
  THEN [Quiet EXCEPT !.command = "quit", !.stop = TRUE]
  ELSE IF Lower(parts[1]) = "g" /\ Len(parts) >= 2
  THEN CommandG(parts[2], IF Len(parts) > 2 THEN parts[3] ELSE "0001")
  ELSE IF Lower(parts[1]) = "v" /\ Len(parts) >= 3
  THEN CommandV(parts[2], parts[3])
  ELSE IF Lower(parts[1]) = "b" /\ Len(parts) >= 3
  THEN CommandB(parts[2], parts[3])
  ELSE [Quiet EXCEPT !.command = "unknown"]

\* One pass of the loop of lines 176-215 on the line input() returned.
Command(text) ==
  Only({Dispatch(user_input, parts) :
          user_input \in {Strip(text)}, parts \in {Split(Strip(text))}})

\* The keys typed after v: issued ones (one with blanks in its customer
\* field), one in lowercase, one with a wrong signature, one too short.
PromptKeys ==
  {generate_key(c, "AB12CD34").value : c \in PromptCustomers}
    \cup {"aura-0001-ab12-f78a950e", "AURA-0001-AB12-F78A950F", "AURA-"}

\* The lines typed in the interactive mode.
InputLines ==
  {"", "  ", "quit", " QUIT", "help", "g", "b AB12CD34",
   "v AURA-0001-AB12-F78A950E"}
    \cup {"g " \o m : m \in PromptMachines}
    \cup {"G  " \o m \o "\t" \o c \o " x" :
            m \in PromptMachines, c \in PromptCustomers}
    \cup {"v " \o k \o " " \o m : k \in PromptKeys, m \in PromptMachines}
    \cup {"b " \o m \o " " \o n : m \in PromptMachines, n \in PromptCounts}

(***************************************************************************)
(* The runs.                                                               *)
(***************************************************************************)
NoVol == [error |-> "not run", returncode |-> 0, stdout |-> ""]

Init ==
  /\ pc = "start"
  /\ gcustomer = ""
  /\ gmachine = ""
  /\ gen = NotCalled
  /\ vkey = ""
  /\ edit = "none"
  /\ vmachine = ""
  /\ val = NotValidated
  /\ keys = <<>>
  /\ line = ""
  /\ caught = ""
  /\ exit = "none"
  /\ host = ""
  /\ vol = NoVol
  /\ derived = NotDerived

\* A program that imports the module calls generate_key(c, m).
GenerateKey(c, m) ==
  /\ pc = "start"
  /\ gcustomer' = c
  /\ gmachine' = m
  /\ gen' = generate_key(c, m)
  /\ vkey' = IF gen'.raised = "none" THEN gen'.value ELSE ""
  /\ pc' = IF gen'.raised = "none" THEN "issued" ELSE "failed"
  /\ UNCHANGED <<edit, vmachine, val, keys, line, caught, exit,
                 host, vol, derived>>

\* The issued key has one character replaced by another that is not a case
\* variant of it before it is handed to validate_key.
Tamper(i, ch) ==
  /\ pc = "issued"
  /\ i \in 1..Len(vkey)
  /\ Upper(ch) # Upper(CharAt(vkey, i))
  /\ vkey' = ReplaceAt(vkey, i, ch)
  /\ edit' = "tamper"
  /\ pc' = "altered"
  /\ UNCHANGED <<gcustomer, gmachine, gen, vmachine, val, keys, line,
                 caught, exit, host, vol, derived>>

\* str.swapcase() on one character.
SwapCaseChar(c) ==
  IF Ord(c) >= 97 /\ Ord(c) <= 122 THEN Chr(Ord(c) - 32)
  ELSE IF Ord(c) >= 65 /\ Ord(c) <= 90 THEN Chr(Ord(c) + 32)
  ELSE c

\* The issued key has one letter put in the other case.
Recase(i) ==
  /\ pc = "issued"
  /\ i \in 1..Len(vkey)
  /\ SwapCaseChar(CharAt(vkey, i)) # CharAt(vkey, i)
  /\ vkey' = ReplaceAt(vkey, i, SwapCaseChar(CharAt(vkey, i)))
  /\ edit' = "recase"
  /\ pc' = "altered"
  /\ UNCHANGED <<gcustomer, gmachine, gen, vmachine, val, keys, line,
                 caught, exit, host, vol, derived>>

\* The issued key has blanks put before or after it.
PadKey(l, r) ==
  /\ pc = "issued"
  /\ l + r > 0
  /\ vkey' = Spaces(l) \o vkey \o Spaces(r)
  /\ edit' = "pad"
  /\ pc' = "altered"
  /\ UNCHANGED <<gcustomer, gmachine, gen, vmachine, val, keys, line,
                 caught, exit, host, vol, derived>>

\* The key text handed to validate_key is one that no call issued.
TypeKey(k) ==
  /\ pc = "start"
  /\ vkey' = k
  /\ edit' = "typed"
  /\ pc' = "typed"
  /\ UNCHANGED <<gcustomer, gmachine, gen, vmachine, val, keys, line,
                 caught, exit, host, vol, derived>>

\* A program that imports the module calls validate_key(vkey, m).
ValidateKey(m) ==
  /\ pc \in {"issued", "altered", "typed"}
  /\ vmachine' = m
  /\ val' = validate_key(vkey, m)
  /\ pc' = "validated"
  /\ UNCHANGED <<gcustomer, gmachine, gen, vkey, edit, keys, line,
                 caught, exit, host, vol, derived>>

\* main with --validate v and --machine m (lines 125-131): without a
\* machine id the run ends with status 1 and validate_key is not called;
\* else the status is 0 for a valid key and 1 for an invalid one.
MainValidate(v, m) ==
  /\ pc = "start"
  /\ v # ""
  /\ IF m = ""
     THEN /\ exit' = "1"
          /\ UNCHANGED <<vkey, edit, vmachine, val>>
     ELSE /\ vkey' = v
          /\ edit' = "typed"
          /\ vmachine' = m
          /\ val' = validate_key(v, m)
          /\ exit' = IF val'.raised # "none" \/ ~val'.valid THEN "1" ELSE "0"
  /\ pc' = "exited"
  /\ UNCHANGED <<gcustomer, gmachine, gen, keys, line, caught,
                 host, vol, derived>>

\* main with --batch b, --machine m and --start s, without --validate
\* (lines 134-144): generate_key is called for the customer ids s, s + 1,
\* ...; an error of generate_key is not caught and ends the run.
MainBatch(v, b, m, s) ==
  /\ pc = "start"
  /\ v = ""
  /\ b # 0 /\ m # ""
  /\ keys' = BatchRun(s, s + b, m)
  /\ gcustomer' = LastCall(keys').customer
  /\ gmachine' = IF keys' = <<>> THEN "" ELSE m
  /\ gen' = LastCall(keys').out
  /\ pc' = IF gen'.raised \in {"none", "not called"} THEN "exited" ELSE "failed"
  /\ exit' = IF gen'.raised \in {"none", "not called"} THEN "0" ELSE "1"
  /\ UNCHANGED <<vkey, edit, vmachine, val, line, caught, host, vol, derived>>

\* main with --machine m and --customer c, without --validate and without
\* --batch (lines 147-157): the key is generated and validated against the
\* same machine argument; an error of generate_key is not caught and ends
\* the run.
MainSingleKey(v, b, m, c) ==
  /\ pc = "start"
  /\ v = ""
  /\ ~(b # 0 /\ m # "")
  /\ m # ""
  /\ gcustomer' = c
  /\ gmachine' = m
  /\ gen' = generate_key(c, m)
  /\ IF gen'.raised = "none"
     THEN /\ vkey' = gen'.value
          /\ vmachine' = m
          /\ val' = validate_key(gen'.value, m)
          /\ pc' = IF val'.raised = "none" THEN "exited" ELSE "failed"
          /\ exit' = IF val'.raised = "none" THEN "0" ELSE "1"
     ELSE /\ pc' = "failed"
          /\ exit' = "1"
          /\ UNCHANGED <<vkey, vmachine, val>>
  /\ UNCHANGED <<edit, keys, line, caught, host, vol, derived>>

\* main without --validate and without --machine (lines 160-174): the
\* interactive mode prints its banner and waits for a line.
MainInteractive(v, b, m) ==
  /\ pc = "start"
  /\ v = ""
  /\ ~(b # 0 /\ m # "")
  /\ m = ""
  /\ pc' = "prompt"
  /\ UNCHANGED <<gcustomer, gmachine, gen, vkey, edit, vmachine, val, keys,
                 line, caught, exit, host, vol, derived>>

\* One pass of the loop of the interactive mode (lines 176-215) on the
\* line text: the state keeps the calls of this command only, the loop
\* carries nothing from one command to the next.
InteractiveCommand(text) ==
  /\ pc = "prompt"
  /\ line' = text
  /\ \E did \in {Command(text)} :
       /\ gcustomer' = did.gcustomer
       /\ gmachine' = did.gmachine
       /\ gen' = did.gen
       /\ vkey' = did.vkey
       /\ edit' = did.edit
       /\ vmachine' = did.vmachine
       /\ val' = did.val
       /\ keys' = did.keys
       /\ caught' = did.caught
       /\ pc' = IF did.stop THEN "exited" ELSE "prompt"
       /\ exit' = IF did.stop THEN "0" ELSE "none"
  /\ UNCHANGED <<host, vol, derived>>

\* input() raises EOFError or KeyboardInterrupt (lines 179-180): the loop
\* ends and main returns.
EndOfInput ==
  /\ pc = "prompt"
  /\ pc' = "exited"
  /\ exit' = "0"
  /\ UNCHANGED <<gcustomer, gmachine, gen, vkey, edit, vmachine, val, keys,
                 line, caught, host, vol, derived>>

\* A run of verify_keys.py on a host named n where the vol command ends
\* in outcome o.
RunVerifyKeys(n, o) ==
  /\ pc = "start"
  /\ host' = n
  /\ vol' = o
  /\ derived' = derive_machine_id(n, o)
  /\ pc' = "derived"
  /\ exit' = IF derived'.raised = "none" THEN "0" ELSE "1"
  /\ UNCHANGED <<gcustomer, gmachine, gen, vkey, edit, vmachine, val, keys,
                 line, caught>>

Next ==
  \/ \E c \in CustomerIds, m \in MachineIds : GenerateKey(c, m)
  \/ \E i \in 1..KeyLength, ch \in TamperChars : Tamper(i, ch)
  \/ \E i \in 1..KeyLength : Recase(i)
  \/ \E l \in 0..MaxPad, r \in 0..MaxPad : PadKey(l, r)
  \/ \E k \in TypedKeys : TypeKey(k)
  \/ \E m \in MachineIds : ValidateKey(m)
  \/ pc = "start" /\ \E v \in TypedKeys, m \in MachineIds : MainValidate(v, m)
  \/ pc = "start" /\ \E v \in TypedKeys, b \in BatchCounts, m \in MachineIds,
                        s \in BatchStarts : MainBatch(v, b, m, s)
  \/ pc = "start" /\ \E v \in TypedKeys, b \in BatchCounts, m \in MachineIds,
                        c \in CustomerIds : MainSingleKey(v, b, m, c)
  \/ pc = "start" /\ \E v \in TypedKeys, b \in BatchCounts, m \in MachineIds :
                        MainInteractive(v, b, m)
  \/ \E text \in InputLines : InteractiveCommand(text)
  \/ EndOfInput
  \/ \E n \in ComputerNames, o \in VolOutcomes : RunVerifyKeys(n, o)

Spec == Init /\ [][Next]_vars

(***************************************************************************)
(* The claims.                                                             *)
(***************************************************************************)
IsPrefixMessage(msg) == msg = "Key muss mit 'AURA-' beginnen"
IsLengthMessage(msg) == StartsWith(msg, "Ungueltige Key-Laenge")
IsSeparatorMessage(msg) == msg = "Ungueltige Trennzeichen-Positionen"
IsMachineMismatch(msg) == StartsWith(msg, "Machine-ID stimmt nicht")
IsSignatureMismatch(msg) == StartsWith(msg, "Signatur ungueltig")

\* validate_key was called.
Validated == val.raised # "not called"

\* generate_key returned a key, and that key, unchanged, was validated.
IssuedAndValidated ==
  Validated /\ gen.raised = "none" /\ edit = "none"

\* C1: a key generated for customer c and machine m (whose uppercased form
\* has at least 4 characters) is accepted by validate_key with the same m,
\* also when m has whitespace around it or lowercase letters.
C1_RoundTrip ==
  (IssuedAndValidated /\ vmachine = gmachine)
    => (val.raised = "none" /\ val.valid)

\* C2 as stated: a key generated for m is rejected with the
\* machine-mismatch message for every m2 whose first 4 characters, as
\* supplied, differ from those of m.
C2_AsSupplied ==
  (IssuedAndValidated /\ Prefix(vmachine, 4) # Prefix(gmachine, 4))
    => (val.raised = "none" /\ ~val.valid /\ IsMachineMismatch(val.message))

\* C2 amended: a key generated for m is rejected with the machine-mismatch
\* message for every m2 whose first 4 characters after uppercasing and
\* trimming differ from the first 4 characters of the uppercased m.
C2_MachineMismatch ==
  (IssuedAndValidated
     /\ Prefix(Strip(Upper(vmachine)), 4) # Prefix(Upper(gmachine), 4))
    => (val.raised = "none" /\ ~val.valid /\ IsMachineMismatch(val.message))

C2_Witness ==
  /\ IssuedAndValidated
  /\ gmachine = "AB12CD34"
  /\ vmachine = "CD34AB12"
  /\ ~val.valid
  /\ val.message = "Machine-ID stimmt nicht (AB12 != CD34)"

\* C3: a key that validate_key accepts for a machine is rejected for that
\* machine once one of its 23 characters is replaced by a character that
\* is not a case variant of it.
C3_TamperDetected ==
  (Validated /\ edit = "tamper"
     /\ validate_key(gen.value, vmachine).valid)
    => (val.raised = "none" /\ ~val.valid)

\* The last character of an accepted key replaced by a space.
C3_Witness ==
  /\ Validated
  /\ edit = "tamper"
  /\ validate_key(gen.value, vmachine).valid
  /\ vkey = ReplaceAt(gen.value, KeyLength, " ")
  /\ ~val.valid

\* C4: the machine id derivation always ends with an 8-character machine
\* id, with serial value 0 when the volume information cannot be read or
\* holds no 4+4 hex group; it never ends in an error.
C4_AlwaysProduced ==
  pc = "derived"
    => /\ derived.raised = "none"
       /\ Len(derived.value) = 8
       /\ (vol.error # "none" \/ ReSearch(vol.stdout) = <<>>)
            => derived.value = MachineIdOf(host \o "|0|AuRa_HW_v2")

\* C5: generate_key raises ValueError exactly when the uppercased
\* machine_id has fewer than 4 characters, and otherwise returns a key;
\* the length assertion never fires.
C5_ErrorExactlyWhenShort ==
  gen.raised # "not called"
    => /\ gen.raised \in {"none", "ValueError"}
       /\ (gen.raised = "ValueError") <=> (Len(Upper(gmachine)) < 4)
       /\ gen.raised = "none" => gen.value # ""

\* The longest customer id with the shortest machine id that is accepted.
C5_Witness ==
  /\ gen.raised = "none"
  /\ Len(gcustomer) = MaxCidLen
  /\ gmachine = " AB1"

\* C6: every key generate_key returns has 23 characters, starts with
\* "AURA-" and has '-' at positions 4, 9 and 14 (0-based).
C6_KeyShape ==
  gen.raised = "none"
    => /\ Len(gen.value) = 23
       /\ SubSeq(gen.value, 1, 5) = "AURA-"
       /\ CharAt(gen.value, 5) = "-"
       /\ CharAt(gen.value, 10) = "-"
       /\ CharAt(gen.value, 15) = "-"

\* A customer id with '-' and a space in it, longer than 4 characters.
C6_Witness ==
  /\ gen.raised = "none"
  /\ gcustomer = "1- a2"
  /\ Len(gen.value) = 23

\* C7: positions 5-8 of the key are the uppercased customer id, padded on
\* the right with spaces when shorter than 4 and cut to its first 4
\* characters when longer; positions 10-13 are the first 4 characters of
\* the uppercased machine id.
C7_EmbeddedFields ==
  gen.raised = "none"
    => /\ Slice(gen.value, 5, 9) =
            (IF Len(gcustomer) < 4
             THEN Upper(gcustomer) \o Spaces(4 - Len(gcustomer))
             ELSE SubSeq(Upper(gcustomer), 1, 4))
       /\ Slice(gen.value, 10, 14) = SubSeq(Upper(gmachine), 1, 4)

C7_Witness ==
  /\ gen.raised = "none"
  /\ gcustomer = "1"
  /\ gmachine = "AB12CD34"
  /\ Slice(gen.value, 5, 9) = "1   "

\* C8: validate_key raises nothing: it returns a boolean and a message for
\* every key and machine id, and a key that is not 23 characters long is
\* turned down by the prefix or the length check.
C8_NeverFails ==
  Validated
    => /\ val.raised = "none"
       /\ val.valid \in BOOLEAN
       /\ val.message # ""
       /\ Len(Strip(Upper(vkey))) # 23
            => (IsPrefixMessage(val.message) \/ IsLengthMessage(val.message))

\* A key too short to have a separator at position 9, and an empty
\* machine id.
C8_Witness ==
  /\ Validated
  /\ vkey = "AURA-"
  /\ vmachine = ""
  /\ val.raised = "none"
  /\ IsLengthMessage(val.message)

\* C9: validate_key gives the same boolean for a key and a machine id in
\* any letter case: the result for the pair as typed is the result for the
\* lowercased key with the uppercased machine id, and for the uppercased
\* key with the lowercased machine id.
C9_CaseInsensitive ==
  Validated
    => /\ validate_key(Lower(vkey), Upper(vmachine)).valid = val.valid
       /\ validate_key(Upper(vkey), Lower(vmachine)).valid = val.valid

\* A key with one letter typed in the other case, accepted for the
\* lowercase form of the machine id it was issued for.
C9_Witness ==
  /\ Validated
  /\ edit = "recase"
  /\ gmachine = "AB12CD34"
  /\ vmachine = "ab12cd34"
  /\ val.valid

\* C10: when validate_key accepts, the trimmed uppercased machine id M has
\* at least 4 characters and the trimmed uppercased key is the key
\* generate_key issues for M and the customer id at positions 5-8; and an
\* issued key is turned down at the signature check for a machine id that
\* differs from the issuing one but shares its first 4 characters.
C10_NoFalseAccept ==
  /\ (Validated /\ val.valid)
       => LET M == Strip(Upper(vmachine))
              k == Strip(Upper(vkey))
          IN  /\ Len(M) >= 4
              /\ generate_key(Slice(k, 5, 9), M) = [raised |-> "none", value |-> k]
  /\ (IssuedAndValidated
        /\ Strip(Upper(vmachine)) # Upper(gmachine)
        /\ Prefix(Strip(Upper(vmachine)), 4) = Prefix(Upper(gmachine), 4))
       => (~val.valid /\ IsSignatureMismatch(val.message))

\* A key text that no call of the run issued, accepted.
C10_Witness ==
  /\ Validated
  /\ edit = "typed"
  /\ vkey = "aura-0001-ab12-f78a950e"
  /\ val.valid

=============================================================================
